---------------------------- MODULE Spec2Model ----------------------------
(* Model of src/src/kvstore.rs: an in-memory ordered map guarded by one    *)
(* mutex, persisted as a flat file "key|base64(json(value))\n" per entry.  *)
(* Strings are sequences of byte values (0..255).                          *)
EXTENDS Integers, Sequences, FiniteSets, TLC

\* ---------------------------------------------------------------------
\* Characters used by the codec
\* ---------------------------------------------------------------------
PIPE == 124
NL == 10
CR == 13
QUOTE == 34
BACKSLASH == 92
NUL == 0
PAD == 61

\* ---------------------------------------------------------------------
\* serde_json::Value (the documents the model uses) and its text form
\* ---------------------------------------------------------------------
JNull == [kind |-> "null", num |-> 0, str |-> <<>>]
JNum(n) == [kind |-> "num", num |-> n, str |-> <<>>]
JStr(s) == [kind |-> "str", num |-> 0, str |-> s]
JBool(b) == [kind |-> "bool", num |-> IF b THEN 1 ELSE 0, str |-> <<>>]

TxtNull == <<110, 117, 108, 108>>
TxtTrue == <<116, 114, 117, 101>>
TxtFalse == <<102, 97, 108, 115, 101>>

RECURSIVE Digits(_)
Digits(n) == IF n < 10 THEN <<48 + n>> ELSE Digits(n \div 10) \o <<48 + (n % 10)>>

RECURSIVE EscapeStr(_)
EscapeStr(s) ==
    IF s = <<>> THEN <<>>
    ELSE LET c == Head(s) IN
         (IF c = QUOTE \/ c = BACKSLASH THEN <<BACKSLASH, c>> ELSE <<c>>)
            \o EscapeStr(Tail(s))

\* serde_json::to_string(value)
JsonToString(v) ==
    CASE v.kind = "null" -> TxtNull
      [] v.kind = "bool" -> (IF v.num = 1 THEN TxtTrue ELSE TxtFalse)
      [] v.kind = "num" -> Digits(v.num)
      [] OTHER -> <<QUOTE>> \o EscapeStr(v.str) \o <<QUOTE>>

JsonErr == [ok |-> FALSE, val |-> JNull]
JsonOk(v) == [ok |-> TRUE, val |-> v]

IsWs(c) == c \in {32, 9, NL, CR}
IsDigit(c) == c >= 48 /\ c <= 57

RECURSIVE TrimLeft(_)
TrimLeft(s) == IF s # <<>> /\ IsWs(Head(s)) THEN TrimLeft(Tail(s)) ELSE s

RECURSIVE TrimRight(_)
TrimRight(s) ==
    IF s # <<>> /\ IsWs(s[Len(s)]) THEN TrimRight(SubSeq(s, 1, Len(s) - 1)) ELSE s

RECURSIVE ParseNum(_, _)
ParseNum(s, acc) ==
    IF s = <<>> THEN JsonOk(JNum(acc))
    ELSE IF IsDigit(Head(s)) THEN ParseNum(Tail(s), acc * 10 + (Head(s) - 48))
    ELSE JsonErr

\* body of a JSON string after the opening quote; must end with the closing quote
RECURSIVE ParseStrBody(_, _)
ParseStrBody(s, acc) ==
    IF s = <<>> THEN JsonErr
    ELSE LET c == Head(s) IN
         IF c = QUOTE THEN (IF Tail(s) = <<>> THEN JsonOk(JStr(acc)) ELSE JsonErr)
         ELSE IF c = BACKSLASH THEN
              (IF Len(s) >= 2 /\ s[2] \in {QUOTE, BACKSLASH}
               THEN ParseStrBody(Tail(Tail(s)), Append(acc, s[2]))
               ELSE JsonErr)
         ELSE IF c < 32 \/ c > 126 THEN JsonErr
         ELSE ParseStrBody(Tail(s), Append(acc, c))

\* serde_json::from_slice(bytes) for the scalar documents of the model
JsonFromSlice(bytes) ==
    LET t == TrimRight(TrimLeft(bytes)) IN
    IF t = <<>> THEN JsonErr
    ELSE IF t = TxtNull THEN JsonOk(JNull)
    ELSE IF t = TxtTrue THEN JsonOk(JBool(TRUE))
    ELSE IF t = TxtFalse THEN JsonOk(JBool(FALSE))
    ELSE IF Head(t) = QUOTE THEN ParseStrBody(Tail(t), <<>>)
    ELSE IF IsDigit(Head(t)) THEN
         (IF Head(t) = 48 /\ Len(t) > 1 THEN JsonErr ELSE ParseNum(t, 0))
    ELSE JsonErr

\* ---------------------------------------------------------------------
\* base64 (standard alphabet, padded)
\* ---------------------------------------------------------------------
B64Char(i) ==
    IF i < 26 THEN 65 + i
    ELSE IF i < 52 THEN 97 + (i - 26)
    ELSE IF i < 62 THEN 48 + (i - 52)
    ELSE IF i = 62 THEN 43 ELSE 47

B64Index(c) ==
    IF c >= 65 /\ c <= 90 THEN c - 65
    ELSE IF c >= 97 /\ c <= 122 THEN c - 97 + 26
    ELSE IF c >= 48 /\ c <= 57 THEN c - 48 + 52
    ELSE IF c = 43 THEN 62
    ELSE IF c = 47 THEN 63
    ELSE -1

RECURSIVE Base64Encode(_)
Base64Encode(b) ==
    IF b = <<>> THEN <<>>
    ELSE IF Len(b) = 1 THEN
         <<B64Char(b[1] \div 4), B64Char((b[1] % 4) * 16), PAD, PAD>>
    ELSE IF Len(b) = 2 THEN
         <<B64Char(b[1] \div 4), B64Char((b[1] % 4) * 16 + (b[2] \div 16)),
           B64Char((b[2] % 16) * 4), PAD>>
    ELSE <<B64Char(b[1] \div 4), B64Char((b[1] % 4) * 16 + (b[2] \div 16)),
           B64Char((b[2] % 16) * 4 + (b[3] \div 64)), B64Char(b[3] % 64)>>
         \o Base64Encode(SubSeq(b, 4, Len(b)))

B64Err == [ok |-> FALSE, bytes |-> <<>>]

\* one quantum of four symbols; last = TRUE allows padding
B64Quantum(q, last) ==
    LET i1 == B64Index(q[1])
        i2 == B64Index(q[2])
        i3 == B64Index(q[3])
        i4 == B64Index(q[4])
    IN IF i1 < 0 \/ i2 < 0 THEN B64Err
       ELSE IF q[3] = PAD THEN
            (IF last /\ q[4] = PAD /\ i2 % 16 = 0
             THEN [ok |-> TRUE, bytes |-> <<i1 * 4 + (i2 \div 16)>>]
             ELSE B64Err)
       ELSE IF i3 < 0 THEN B64Err
       ELSE IF q[4] = PAD THEN
            (IF last /\ i3 % 4 = 0
             THEN [ok |-> TRUE,
                   bytes |-> <<i1 * 4 + (i2 \div 16), (i2 % 16) * 16 + (i3 \div 4)>>]
             ELSE B64Err)
       ELSE IF i4 < 0 THEN B64Err
       ELSE [ok |-> TRUE,
             bytes |-> <<i1 * 4 + (i2 \div 16), (i2 % 16) * 16 + (i3 \div 4),
                         (i3 % 4) * 64 + i4>>]

RECURSIVE Base64Decode(_)
Base64Decode(s) ==
    IF s = <<>> THEN [ok |-> TRUE, bytes |-> <<>>]
    ELSE IF Len(s) < 4 THEN B64Err
    ELSE LET q == B64Quantum(SubSeq(s, 1, 4), Len(s) = 4) IN
         IF ~q.ok THEN B64Err
         ELSE LET r == Base64Decode(SubSeq(s, 5, Len(s))) IN
              IF r.ok THEN [ok |-> TRUE, bytes |-> q.bytes \o r.bytes] ELSE B64Err


\* ---------------------------------------------------------------------
\* BTreeMap<String, Value>
\* ---------------------------------------------------------------------
EmptyMap == [x \in {} |-> JNull]

ContainsKey(m, k) == k \in DOMAIN m

MapInsert(m, k, v) == [x \in (DOMAIN m) \cup {k} |-> IF x = k THEN v ELSE m[x]]

MapRemove(m, k) == [x \in (DOMAIN m) \ {k} |-> m[x]]

\* Ord for String: byte-wise lexicographic
RECURSIVE StrLess(_, _)
StrLess(a, b) ==
    IF b = <<>> THEN FALSE
    ELSE IF a = <<>> THEN TRUE
    ELSE IF Head(a) < Head(b) THEN TRUE
    ELSE IF Head(a) > Head(b) THEN FALSE
    ELSE StrLess(Tail(a), Tail(b))

\* BTreeMap::iter(): the keys in ascending order
RECURSIVE SortedKeys(_)
SortedKeys(S) ==
    IF S = {} THEN <<>>
    ELSE LET m == CHOOSE x \in S : \A y \in S \ {x} : StrLess(x, y)
         IN <<m>> \o SortedKeys(S \ {m})

MapIter(m) == SortedKeys(DOMAIN m)

\* ---------------------------------------------------------------------
\* write_kvstore: the bytes of one entry, and of the whole map
\* ---------------------------------------------------------------------
RECURSIVE ReplacePipe(_)
ReplacePipe(s) ==
    IF s = <<>> THEN <<>>
    ELSE (IF Head(s) = PIPE THEN <<BACKSLASH, PIPE>> ELSE <<Head(s)>>)
            \o ReplacePipe(Tail(s))

EntryLine(key, value) ==
    key \o <<PIPE>> \o ReplacePipe(Base64Encode(JsonToString(value))) \o <<NL>>

RECURSIVE EncodeEntries(_, _)
EncodeEntries(m, ks) ==
    IF ks = <<>> THEN <<>>
    ELSE EntryLine(Head(ks), m[Head(ks)]) \o EncodeEntries(m, Tail(ks))

EncodeMap(m) == EncodeEntries(m, MapIter(m))

\* ---------------------------------------------------------------------
\* read_kvstore
\* ---------------------------------------------------------------------
\* position of the first c in s, 0 if none
RECURSIVE IndexOf(_, _, _)
IndexOf(s, c, i) ==
    IF i > Len(s) THEN 0
    ELSE IF s[i] = c THEN i
    ELSE IndexOf(s, c, i + 1)

StripCr(l) == IF l # <<>> /\ l[Len(l)] = CR THEN SubSeq(l, 1, Len(l) - 1) ELSE l

\* str::lines()
RECURSIVE Lines(_)
Lines(s) ==
    IF s = <<>> THEN <<>>
    ELSE LET i == IndexOf(s, NL, 1) IN
         IF i = 0 THEN <<s>>
         ELSE <<StripCr(SubSeq(s, 1, i - 1))>> \o Lines(SubSeq(s, i + 1, Len(s)))

\* str::split("|"): the fields of a line
RECURSIVE SplitPipe(_)
SplitPipe(l) ==
    LET i == IndexOf(l, PIPE, 1) IN
    IF i = 0 THEN <<l>>
    ELSE <<SubSeq(l, 1, i - 1)>> \o SplitPipe(SubSeq(l, i + 1, Len(l)))

LineKey(l) == SplitPipe(l)[1]

LineValue(l) == IF Len(SplitPipe(l)) >= 2 THEN SplitPipe(l)[2] ELSE <<>>

StripQuotes(v) ==
    IF v # <<>> /\ v[1] = QUOTE /\ v[Len(v)] = QUOTE
    THEN SubSeq(v, 2, Len(v) - 1)
    ELSE v

\* the loop of read_kvstore over the lines; on an error the entries of the
\* preceding lines stay in the target map
RECURSIVE ReadLines(_, _)
ReadLines(ls, m) ==
    IF ls = <<>> THEN [ok |-> TRUE, map |-> m]
    ELSE LET key == LineKey(Head(ls))
             value == LineValue(Head(ls))
         IN IF key = <<>> \/ value = <<>> THEN ReadLines(Tail(ls), m)
            ELSE LET d == Base64Decode(StripQuotes(value)) IN
                 IF ~d.ok THEN [ok |-> FALSE, map |-> m]
                 ELSE LET j == JsonFromSlice(d.bytes) IN
                      IF ~j.ok THEN [ok |-> FALSE, map |-> m]
                      ELSE ReadLines(Tail(ls), MapInsert(m, key, j.val))

ReadKvstore(contents, m) == ReadLines(Lines(contents), m)


\* ---------------------------------------------------------------------
\* Bounds and inputs
\* ---------------------------------------------------------------------
NumProcs == 2
MaxOps == 3
MaxSkip == 1
MaxLimit == 1

Procs == 1..NumProcs
NoProc == 0

\* Option<u64>::None
None == -1

\* length of a generated key, and the default limit of list_keys
KeyLength == 8
DefaultLimit == 1000

KeyOf(c) == [i \in 1..KeyLength |-> c]

\* candidate keys generate_random_string can return
GenKeys == {KeyOf(97), KeyOf(98)}

\* keys supplied by callers: a short one and one that collides with a
\* generated key
Keys == {<<97>>, KeyOf(97)}

\* documents supplied by callers
Docs == {JNum(1), JNull}

SkipArgs == {None} \cup (0..MaxSkip)
LimitArgs == {None} \cup (0..MaxLimit)

\* ---------------------------------------------------------------------
\* State
\* ---------------------------------------------------------------------
VARIABLES
    store,        \* the BTreeMap behind Arc<Mutex<..>>
    lock,         \* holder of the mutex, NoProc when free
    file,         \* bytes of database.vbank
    up,           \* FALSE after KVStore::new panicked
    pc,           \* position of each caller
    call,         \* operation and arguments of each caller
    result,       \* response of each caller
    wpos,         \* offset of the caller's file handle in write_kvstore
    widx,         \* index of the next entry write_kvstore writes
    ops,          \* number of calls so far
    history,      \* every value the map has held
    lastWritten,  \* per key, what the last operation on it left
    fresh,        \* "fresh": the caller created its key; "stale": a delete or
                  \* insert touched that key since; "none" otherwise
    scen,         \* progress through the create/create/delete/restart scenario
    cmap, cbytes, cres, cstage,  \* encode/decode round trip of a map
    lskip, llimit, lres,         \* list_keys applied to a map
    hmaps,        \* the map behind each KVStore value, the clones included
    hlast,        \* per key, what the last mutation through any value left
    hres          \* the last get or list_keys through a value, and its answer

vars == <<store, lock, file, up, pc, call, result, wpos, widx, ops,
          history, lastWritten, fresh, scen, cmap, cbytes, cres, cstage,
          lskip, llimit, lres, hmaps, hlast, hres>>

cloneVars == <<hmaps, hlast, hres>>

codecVars == <<cmap, cbytes, cres, cstage, lskip, llimit, lres>>

storeVars == <<store, lock, file, up, pc, call, result, wpos, widx, ops,
               history, lastWritten, fresh, scen>>

NoCall == [op |-> "none", key |-> <<>>, value |-> JNull, skip |-> None, limit |-> None,
           retried |-> FALSE]
NoResult == [status |-> "none", body |-> <<>>, list |-> <<>>]
Response(st, b, l) == [status |-> st, body |-> b, list |-> l]

Absent == [kind |-> "absent", num |-> 0, str |-> <<>>]
AllKeys == Keys \cup GenKeys

ScenOff == [phase |-> -1, k1 |-> <<>>, v1 |-> JNull, k2 |-> <<>>, v2 |-> JNull, del |-> <<>>]
ScenStart == [ScenOff EXCEPT !.phase = 0]

NoHRes == [op |-> "none", handle |-> 0, key |-> <<>>, resp |-> NoResult]

\* no KVStore value is under observation
CloneOff ==
    /\ hmaps = <<>>
    /\ hlast = [k \in {} |-> Absent]
    /\ hres = NoHRes

StoreInit ==
    /\ store = EmptyMap
    /\ lock = NoProc
    /\ file = <<>>
    /\ up = TRUE
    /\ pc = [p \in Procs |-> "idle"]
    /\ call = [p \in Procs |-> NoCall]
    /\ result = [p \in Procs |-> NoResult]
    /\ wpos = [p \in Procs |-> 0]
    /\ widx = [p \in Procs |-> 0]
    /\ ops = 0
    /\ history = {EmptyMap}
    /\ lastWritten = [k \in AllKeys |-> Absent]
    /\ fresh = [p \in Procs |-> "none"]
    /\ scen = ScenStart

Init ==
    /\ StoreInit
    /\ cmap = EmptyMap
    /\ cbytes = <<>>
    /\ cres = [ok |-> TRUE, map |-> EmptyMap]
    /\ cstage = "off"
    /\ lskip = None
    /\ llimit = None
    /\ lres = NoResult
    /\ CloneOff


\* ---------------------------------------------------------------------
\* Helpers of the actions
\* ---------------------------------------------------------------------
Touch(k) ==
    [q \in Procs |-> IF call[q].key = k /\ fresh[q] = "fresh" THEN "stale" ELSE fresh[q]]

ScenTo(ph) == [scen EXCEPT !.phase = ph]

\* start of a call: the caller leaves "idle"
Begin(p, c, first) ==
    /\ up
    /\ pc[p] = "idle"
    /\ ops < MaxOps
    /\ ops' = ops + 1
    /\ call' = [call EXCEPT ![p] = c]
    /\ pc' = [pc EXCEPT ![p] = first]
    /\ result' = [result EXCEPT ![p] = NoResult]

\* self.store.lock(): blocks until the mutex is free
LockNext(l) ==
    CASE l = "ck_lock" -> "ck_loop"
      [] l = "cwk_lock" -> "cwk_check"
      [] l = "ins_lock" -> "ins_body"
      [] l = "get_lock" -> "get_body"
      [] l = "del_lock" -> "del_body"
      [] l = "list_lock" -> "list_body"
      [] l = "w_lock" -> "w_loop"
      [] OTHER -> l

LockStates == {"ck_lock", "cwk_lock", "ins_lock", "get_lock", "del_lock", "list_lock", "w_lock"}

MutexFree == lock = NoProc

\* variant: lock() does not wait for the holder
Acquire_NoWait(p) ==
    /\ pc[p] \in LockStates
    /\ lock' = p
    /\ pc' = [pc EXCEPT ![p] = LockNext(pc[p])]
    /\ UNCHANGED <<store, file, up, call, result, wpos, widx, ops, history,
                   lastWritten, fresh, scen, codecVars, cloneVars>>

Acquire(p) ==
    /\ pc[p] \in LockStates
    /\ MutexFree
    /\ lock' = p
    /\ pc' = [pc EXCEPT ![p] = LockNext(pc[p])]
    /\ UNCHANGED <<store, file, up, call, result, wpos, widx, ops, history,
                   lastWritten, fresh, scen, codecVars, cloneVars>>

\* ---------------------------------------------------------------------
\* create_key
\* ---------------------------------------------------------------------
CreateKeyCall(p, v, g) ==
    /\ Begin(p, [NoCall EXCEPT !.op = "create_key", !.key = g, !.value = v], "ck_lock")
    /\ scen' = IF scen.phase = 0 THEN ScenTo(1)
               ELSE IF scen.phase = 2 THEN ScenTo(3)
               ELSE ScenOff
    /\ UNCHANGED <<store, lock, file, up, wpos, widx, history, lastWritten,
                   fresh, codecVars, cloneVars>>

\* variant: the loop does not draw a new key
CreateKeyRetry_SameKey(p, g) ==
    /\ pc[p] = "ck_loop"
    /\ ContainsKey(store, call[p].key)
    /\ call' = [call EXCEPT ![p].retried = TRUE]
    /\ UNCHANGED <<store, lock, file, up, pc, result, wpos, widx, ops, history,
                   lastWritten, fresh, scen, codecVars, cloneVars>>

\* one iteration of "while kvs.contains_key(&key)"
CreateKeyRetry(p, g) ==
    /\ pc[p] = "ck_loop"
    /\ ContainsKey(store, call[p].key)
    /\ call' = [call EXCEPT ![p].key = g, ![p].retried = TRUE]
    /\ UNCHANGED <<store, lock, file, up, pc, result, wpos, widx, ops, history,
                   lastWritten, fresh, scen, codecVars, cloneVars>>

\* variant: the collision loop is missing, the candidate is inserted as is
CreateKeyInsert_NoLoop(p) ==
    /\ pc[p] = "ck_loop"
    /\ store' = MapInsert(store, call[p].key, call[p].value)
    /\ lock' = NoProc
    /\ pc' = [pc EXCEPT ![p] = "w_create"]
    /\ history' = history \cup {store'}
    /\ lastWritten' = [lastWritten EXCEPT ![call[p].key] = call[p].value]
    /\ fresh' = [fresh EXCEPT ![p] = "fresh"]
    /\ UNCHANGED <<file, up, call, result, wpos, widx, ops, scen, codecVars, cloneVars>>

CreateKeyInsert(p) ==
    /\ pc[p] = "ck_loop"
    /\ ~ContainsKey(store, call[p].key)
    /\ store' = MapInsert(store, call[p].key, call[p].value)
    /\ lock' = NoProc
    /\ pc' = [pc EXCEPT ![p] = "w_create"]
    /\ history' = history \cup {store'}
    /\ lastWritten' = [lastWritten EXCEPT ![call[p].key] = call[p].value]
    /\ fresh' = [fresh EXCEPT ![p] = "fresh"]
    /\ UNCHANGED <<file, up, call, result, wpos, widx, ops, scen, codecVars, cloneVars>>

\* ---------------------------------------------------------------------
\* create_key_with_key
\* ---------------------------------------------------------------------
CreateWithKeyCall(p, k, v) ==
    /\ Begin(p, [NoCall EXCEPT !.op = "create_key_with_key", !.key = k, !.value = v],
             "cwk_lock")
    /\ scen' = ScenOff
    /\ UNCHANGED <<store, lock, file, up, wpos, widx, history, lastWritten,
                   fresh, codecVars, cloneVars>>

\* variant: the guard is dropped between the existence check and the insert
CreateWithKeyCheck_Unlocked(p) ==
    /\ pc[p] = "cwk_check"
    /\ IF ContainsKey(store, call[p].key)
       THEN /\ result' = [result EXCEPT ![p] = Response("Conflict", <<>>, <<>>)]
            /\ pc' = [pc EXCEPT ![p] = "done"]
       ELSE /\ pc' = [pc EXCEPT ![p] = "cwk_insert"]
            /\ UNCHANGED result
    /\ lock' = NoProc
    /\ UNCHANGED <<store, file, up, call, wpos, widx, ops, history, lastWritten,
                   fresh, scen, codecVars, cloneVars>>

\* variant: no early return on an existing key
CreateWithKeyCheck_NoReturn(p) ==
    /\ pc[p] = "cwk_check"
    /\ pc' = [pc EXCEPT ![p] = "cwk_insert"]
    /\ UNCHANGED <<store, lock, file, up, call, result, wpos, widx, ops, history,
                   lastWritten, fresh, scen, codecVars, cloneVars>>

CreateWithKeyCheck(p) ==
    /\ pc[p] = "cwk_check"
    /\ IF ContainsKey(store, call[p].key)
       THEN /\ result' = [result EXCEPT ![p] = Response("Conflict", <<>>, <<>>)]
            /\ lock' = NoProc
            /\ pc' = [pc EXCEPT ![p] = "done"]
       ELSE /\ pc' = [pc EXCEPT ![p] = "cwk_insert"]
            /\ UNCHANGED <<result, lock>>
    /\ UNCHANGED <<store, file, up, call, wpos, widx, ops, history, lastWritten,
                   fresh, scen, codecVars, cloneVars>>

\* variant: write_kvstore is called inside the scope of the guard
CreateWithKeyInsert_KeepGuard(p) ==
    /\ pc[p] = "cwk_insert"
    /\ store' = MapInsert(store, call[p].key, call[p].value)
    /\ pc' = [pc EXCEPT ![p] = "w_create"]
    /\ history' = history \cup {store'}
    /\ lastWritten' = [lastWritten EXCEPT ![call[p].key] = call[p].value]
    /\ fresh' = [fresh EXCEPT ![p] = "fresh"]
    /\ UNCHANGED <<lock, file, up, call, result, wpos, widx, ops, scen, codecVars,
                   cloneVars>>

CreateWithKeyInsert(p) ==
    /\ pc[p] = "cwk_insert"
    /\ store' = MapInsert(store, call[p].key, call[p].value)
    /\ lock' = NoProc
    /\ pc' = [pc EXCEPT ![p] = "w_create"]
    /\ history' = history \cup {store'}
    /\ lastWritten' = [lastWritten EXCEPT ![call[p].key] = call[p].value]
    /\ fresh' = [fresh EXCEPT ![p] = "fresh"]
    /\ UNCHANGED <<file, up, call, result, wpos, widx, ops, scen, codecVars, cloneVars>>

\* ---------------------------------------------------------------------
\* write_kvstore, called by create_key and create_key_with_key
\* ---------------------------------------------------------------------
Max(a, b) == IF a > b THEN a ELSE b

\* write_all(bytes) at offset pos of a file that may have been truncated
\* below pos since the handle was opened (the gap reads as NUL bytes)
WriteAt(f, pos, bytes) ==
    [i \in 1..Max(Len(f), pos + Len(bytes)) |->
        IF i > pos /\ i <= pos + Len(bytes) THEN bytes[i - pos]
        ELSE IF i <= Len(f) THEN f[i]
        ELSE NUL]

\* variant: the entries are written without taking the lock
WriteCreate_NoLock(p) ==
    /\ pc[p] = "w_create"
    /\ file' = <<>>
    /\ wpos' = [wpos EXCEPT ![p] = 0]
    /\ widx' = [widx EXCEPT ![p] = 1]
    /\ pc' = [pc EXCEPT ![p] = "w_loop"]
    /\ UNCHANGED <<store, lock, up, call, result, ops, history, lastWritten,
                   fresh, scen, codecVars, cloneVars>>

\* File::create: truncates the file, the handle starts at offset 0
WriteCreate(p) ==
    /\ pc[p] = "w_create"
    /\ file' = <<>>
    /\ wpos' = [wpos EXCEPT ![p] = 0]
    /\ widx' = [widx EXCEPT ![p] = 1]
    /\ pc' = [pc EXCEPT ![p] = "w_lock"]
    /\ UNCHANGED <<store, lock, up, call, result, ops, history, lastWritten,
                   fresh, scen, codecVars, cloneVars>>

\* one iteration of the loop over kvstore_file.iter()
WriteEntry(p) ==
    /\ pc[p] = "w_loop"
    /\ widx[p] <= Len(MapIter(store))
    /\ LET k == MapIter(store)[widx[p]]
           line == EntryLine(k, store[k])
       IN /\ file' = WriteAt(file, wpos[p], line)
          /\ wpos' = [wpos EXCEPT ![p] = wpos[p] + Len(line)]
    /\ widx' = [widx EXCEPT ![p] = widx[p] + 1]
    /\ UNCHANGED <<store, lock, up, pc, call, result, ops, history, lastWritten,
                   fresh, scen, codecVars, cloneVars>>

\* end of write_kvstore and of the handler that called it
WriteDone(p) ==
    /\ pc[p] = "w_loop"
    /\ widx[p] > Len(MapIter(store))
    /\ lock' = NoProc
    /\ pc' = [pc EXCEPT ![p] = "done"]
    /\ result' = [result EXCEPT ![p] =
                    IF call[p].op = "create_key"
                    THEN Response("Ok", call[p].key, <<>>)
                    ELSE Response("Ok", <<>>, <<>>)]
    /\ scen' = IF call[p].op = "create_key" /\ scen.phase = 1
               THEN [scen EXCEPT !.phase = 2, !.k1 = call[p].key, !.v1 = call[p].value]
               ELSE IF call[p].op = "create_key" /\ scen.phase = 3
               THEN [scen EXCEPT !.phase = 4, !.k2 = call[p].key, !.v2 = call[p].value]
               ELSE scen
    /\ UNCHANGED <<store, file, up, call, wpos, widx, ops, history, lastWritten,
                   fresh, codecVars, cloneVars>>


\* ---------------------------------------------------------------------
\* insert
\* ---------------------------------------------------------------------
InsertCall(p, k, v) ==
    /\ Begin(p, [NoCall EXCEPT !.op = "insert", !.key = k, !.value = v], "ins_lock")
    /\ scen' = ScenOff
    /\ UNCHANGED <<store, lock, file, up, wpos, widx, history, lastWritten,
                   fresh, codecVars, cloneVars>>

\* variant: entry(key).or_insert(value), an existing value is kept
InsertBody_KeepOld(p) ==
    /\ pc[p] = "ins_body"
    /\ store' = IF ContainsKey(store, call[p].key) THEN store
                ELSE MapInsert(store, call[p].key, call[p].value)
    /\ result' = [result EXCEPT ![p] = Response("Ok", <<>>, <<>>)]
    /\ lock' = NoProc
    /\ pc' = [pc EXCEPT ![p] = "done"]
    /\ history' = history \cup {store'}
    /\ lastWritten' = [lastWritten EXCEPT ![call[p].key] = call[p].value]
    /\ fresh' = Touch(call[p].key)
    /\ UNCHANGED <<file, up, call, wpos, widx, ops, scen, codecVars, cloneVars>>

InsertBody(p) ==
    /\ pc[p] = "ins_body"
    /\ store' = MapInsert(store, call[p].key, call[p].value)
    /\ result' = [result EXCEPT ![p] = Response("Ok", <<>>, <<>>)]
    /\ lock' = NoProc
    /\ pc' = [pc EXCEPT ![p] = "done"]
    /\ history' = history \cup {store'}
    /\ lastWritten' = [lastWritten EXCEPT ![call[p].key] = call[p].value]
    /\ fresh' = Touch(call[p].key)
    /\ UNCHANGED <<file, up, call, wpos, widx, ops, scen, codecVars, cloneVars>>

\* ---------------------------------------------------------------------
\* get
\* ---------------------------------------------------------------------
GetCall(p, k) ==
    /\ Begin(p, [NoCall EXCEPT !.op = "get", !.key = k], "get_lock")
    /\ UNCHANGED <<store, lock, file, up, wpos, widx, history, lastWritten,
                   fresh, scen, codecVars, cloneVars>>

\* variant: the value is looked up but the absent case is answered with null
GetBody_NullForAbsent(p) ==
    /\ pc[p] = "get_body"
    /\ result' = [result EXCEPT ![p] =
                    IF ~ContainsKey(store, call[p].key)
                    THEN Response("Ok", TxtNull, <<>>)
                    ELSE Response("Ok", JsonToString(store[call[p].key]), <<>>)]
    /\ lock' = NoProc
    /\ pc' = [pc EXCEPT ![p] = "done"]
    /\ UNCHANGED <<store, file, up, call, wpos, widx, ops, history, lastWritten,
                   fresh, scen, codecVars, cloneVars>>

GetBody(p) ==
    /\ pc[p] = "get_body"
    /\ result' = [result EXCEPT ![p] =
                    IF ~ContainsKey(store, call[p].key)
                    THEN Response("NotFound", <<>>, <<>>)
                    ELSE Response("Ok", JsonToString(store[call[p].key]), <<>>)]
    /\ lock' = NoProc
    /\ pc' = [pc EXCEPT ![p] = "done"]
    /\ UNCHANGED <<store, file, up, call, wpos, widx, ops, history, lastWritten,
                   fresh, scen, codecVars, cloneVars>>

\* ---------------------------------------------------------------------
\* delete
\* ---------------------------------------------------------------------
DeleteCall(p, k) ==
    /\ Begin(p, [NoCall EXCEPT !.op = "delete", !.key = k], "del_lock")
    /\ scen' = IF scen.phase = 4 /\ k \in {scen.k1, scen.k2}
               THEN [scen EXCEPT !.phase = 5, !.del = k]
               ELSE ScenOff
    /\ UNCHANGED <<store, lock, file, up, wpos, widx, history, lastWritten,
                   fresh, codecVars, cloneVars>>

\* variant: BTreeMap::clear in place of remove(key)
DeleteBody_Clear(p) ==
    /\ pc[p] = "del_body"
    /\ IF ContainsKey(store, call[p].key)
       THEN /\ store' = EmptyMap
            /\ result' = [result EXCEPT ![p] = Response("Ok", <<>>, <<>>)]
            /\ lastWritten' = [lastWritten EXCEPT ![call[p].key] = Absent]
            /\ fresh' = Touch(call[p].key)
            /\ scen' = IF scen.phase = 5 THEN ScenTo(6) ELSE scen
       ELSE /\ result' = [result EXCEPT ![p] = Response("NotFound", <<>>, <<>>)]
            /\ scen' = IF scen.phase = 5 THEN ScenOff ELSE scen
            /\ UNCHANGED <<store, lastWritten, fresh>>
    /\ history' = history \cup {store'}
    /\ lock' = NoProc
    /\ pc' = [pc EXCEPT ![p] = "done"]
    /\ UNCHANGED <<file, up, call, wpos, widx, ops, codecVars, cloneVars>>

DeleteBody(p) ==
    /\ pc[p] = "del_body"
    /\ IF ContainsKey(store, call[p].key)
       THEN /\ store' = MapRemove(store, call[p].key)
            /\ result' = [result EXCEPT ![p] = Response("Ok", <<>>, <<>>)]
            /\ lastWritten' = [lastWritten EXCEPT ![call[p].key] = Absent]
            /\ fresh' = Touch(call[p].key)
            /\ scen' = IF scen.phase = 5 THEN ScenTo(6) ELSE scen
       ELSE /\ result' = [result EXCEPT ![p] = Response("NotFound", <<>>, <<>>)]
            /\ scen' = IF scen.phase = 5 THEN ScenOff ELSE scen
            /\ UNCHANGED <<store, lastWritten, fresh>>
    /\ history' = history \cup {store'}
    /\ lock' = NoProc
    /\ pc' = [pc EXCEPT ![p] = "done"]
    /\ UNCHANGED <<file, up, call, wpos, widx, ops, codecVars, cloneVars>>

\* ---------------------------------------------------------------------
\* list_keys
\* ---------------------------------------------------------------------
UnwrapOr(o, d) == IF o = None THEN d ELSE o

\* Iterator::skip(n)
SkipN(s, n) == IF n >= Len(s) THEN <<>> ELSE SubSeq(s, n + 1, Len(s))

\* variant: the loop test is count > limit
RECURSIVE ListLoop_Inclusive(_, _, _, _, _)
ListLoop_Inclusive(m, ks, count, limit, kv_list) ==
    IF ks = <<>> THEN kv_list
    ELSE IF count > limit THEN kv_list
    ELSE ListLoop_Inclusive(m, Tail(ks), count + 1, limit,
                            Append(kv_list, [key |-> Head(ks), data |-> m[Head(ks)]]))

\* the for loop: stops at the first entry for which count >= limit
RECURSIVE ListLoop(_, _, _, _, _)
ListLoop(m, ks, count, limit, kv_list) ==
    IF ks = <<>> THEN kv_list
    ELSE IF count >= limit THEN kv_list
    ELSE ListLoop(m, Tail(ks), count + 1, limit,
                  Append(kv_list, [key |-> Head(ks), data |-> m[Head(ks)]]))

ListKeys(m, skip, limit) ==
    LET kv_list == ListLoop(m, SkipN(MapIter(m), UnwrapOr(skip, 0)), 0,
                            UnwrapOr(limit, DefaultLimit), <<>>)
    IN IF Len(kv_list) = 0
       THEN Response("NotFound", <<>>, <<>>)
       ELSE Response("Ok", <<>>, kv_list)

ListCall(p, skip, limit) ==
    /\ Begin(p, [NoCall EXCEPT !.op = "list_keys", !.skip = skip, !.limit = limit],
             "list_lock")
    /\ UNCHANGED <<store, lock, file, up, wpos, widx, history, lastWritten,
                   fresh, scen, codecVars, cloneVars>>

ListBody(p) ==
    /\ pc[p] = "list_body"
    /\ result' = [result EXCEPT ![p] = ListKeys(store, call[p].skip, call[p].limit)]
    /\ lock' = NoProc
    /\ pc' = [pc EXCEPT ![p] = "done"]
    /\ UNCHANGED <<store, file, up, call, wpos, widx, ops, history, lastWritten,
                   fresh, scen, codecVars, cloneVars>>

\* ---------------------------------------------------------------------
\* the caller receives the response; process restart (KVStore::new)
\* ---------------------------------------------------------------------
Return(p) ==
    /\ pc[p] = "done"
    /\ pc' = [pc EXCEPT ![p] = "idle"]
    /\ call' = [call EXCEPT ![p] = NoCall]
    /\ result' = [result EXCEPT ![p] = NoResult]
    /\ fresh' = [fresh EXCEPT ![p] = "none"]
    /\ UNCHANGED <<store, lock, file, up, wpos, widx, ops, history, lastWritten,
                   scen, codecVars, cloneVars>>

\* KVStore::new: an empty map hydrated by read_kvstore(..).unwrap()
Hydrate(contents) == ReadKvstore(contents, EmptyMap)

Restart ==
    /\ \A p \in Procs : pc[p] = "idle"
    /\ store' = Hydrate(file).map
    /\ up' = Hydrate(file).ok
    /\ lock' = NoProc
    /\ history' = IF up' THEN history \cup {store'} ELSE history
    /\ lastWritten' = [k \in AllKeys |-> IF k \in DOMAIN store' THEN store'[k] ELSE Absent]
    /\ scen' = IF scen.phase = 6 THEN ScenTo(7) ELSE ScenOff
    /\ UNCHANGED <<file, pc, call, result, wpos, widx, ops, fresh, codecVars, cloneVars>>

\* ---------------------------------------------------------------------
\* Specification of the store
\* ---------------------------------------------------------------------
Next ==
    \/ \E p \in Procs, v \in Docs, g \in GenKeys : CreateKeyCall(p, v, g)
    \/ \E p \in Procs, g \in GenKeys : CreateKeyRetry(p, g)
    \/ \E p \in Procs : CreateKeyInsert(p)
    \/ \E p \in Procs, k \in Keys, v \in Docs : CreateWithKeyCall(p, k, v)
    \/ \E p \in Procs : CreateWithKeyCheck(p)
    \/ \E p \in Procs : CreateWithKeyInsert(p)
    \/ \E p \in Procs, k \in Keys, v \in Docs : InsertCall(p, k, v)
    \/ \E p \in Procs : InsertBody(p)
    \/ \E p \in Procs, k \in AllKeys : GetCall(p, k)
    \/ \E p \in Procs : GetBody(p)
    \/ \E p \in Procs, k \in AllKeys : DeleteCall(p, k)
    \/ \E p \in Procs : DeleteBody(p)
    \/ \E p \in Procs, s \in SkipArgs, l \in LimitArgs : ListCall(p, s, l)
    \/ \E p \in Procs : ListBody(p)
    \/ \E p \in Procs : Acquire(p)
    \/ \E p \in Procs : WriteCreate(p)
    \/ \E p \in Procs : WriteEntry(p)
    \/ \E p \in Procs : WriteDone(p)
    \/ \E p \in Procs : Return(p)
    \/ Restart

Spec == Init /\ [][Next]_vars


\* ---------------------------------------------------------------------
\* The store under fair scheduling
\* ---------------------------------------------------------------------
MaxLiveOps == 3

\* generate_random_string draws from 62^8 keys, more than a map can hold:
\* here, one key more than there are calls
LiveGenKeys == {KeyOf(97 + i) : i \in 0..MaxLiveOps}

\* a call may start
MayCall == ops < MaxLiveOps

\* a key callers supply, equal to one that can be generated
LiveKeys == {KeyOf(97)}

LiveInit ==
    /\ store = EmptyMap
    /\ lock = NoProc
    /\ file = <<>>
    /\ up = TRUE
    /\ pc = [p \in Procs |-> "idle"]
    /\ call = [p \in Procs |-> NoCall]
    /\ result = [p \in Procs |-> NoResult]
    /\ wpos = [p \in Procs |-> 0]
    /\ widx = [p \in Procs |-> 0]
    /\ ops = 0
    /\ history = {EmptyMap}
    /\ lastWritten = [k \in LiveGenKeys |-> Absent]
    /\ fresh = [p \in Procs |-> "none"]
    /\ scen = ScenOff
    /\ cmap = EmptyMap
    /\ cbytes = <<>>
    /\ cres = [ok |-> TRUE, map |-> EmptyMap]
    /\ cstage = "off"
    /\ lskip = None
    /\ llimit = None
    /\ lres = NoResult
    /\ CloneOff

\* the steps a caller takes on its own once its call has started
Proceed(p) ==
    \/ CreateKeyInsert(p)
    \/ CreateWithKeyCheck(p)
    \/ CreateWithKeyInsert(p)
    \/ InsertBody(p)
    \/ GetBody(p)
    \/ DeleteBody(p)
    \/ ListBody(p)
    \/ WriteCreate(p)
    \/ WriteDone(p)

\* the step of the loop of write_kvstore, told by the index alone
LoopStep(p) ==
    /\ pc[p] = "w_loop"
    /\ widx[p] <= Cardinality(DOMAIN store)
    /\ widx' = [widx EXCEPT ![p] = widx[p] + 1]

\* the generator comes up with a key that is not in the map
RetryFree(p) == \E g \in LiveGenKeys \ DOMAIN store : CreateKeyRetry(p, g)

LiveNext ==
    \/ \E p \in Procs, g \in LiveGenKeys : MayCall /\ CreateKeyCall(p, JNum(1), g)
    \/ \E p \in Procs, g \in LiveGenKeys : CreateKeyRetry(p, g)
    \/ \E p \in Procs, k \in LiveKeys : MayCall /\ CreateWithKeyCall(p, k, JNum(1))
    \/ \E p \in Procs, k \in LiveKeys : MayCall /\ InsertCall(p, k, JNull)
    \/ \E p \in Procs, k \in LiveKeys : MayCall /\ GetCall(p, k)
    \/ \E p \in Procs, k \in LiveKeys : MayCall /\ DeleteCall(p, k)
    \/ \E p \in Procs : MayCall /\ ListCall(p, None, None)
    \/ \E p \in Procs : Acquire(p)
    \/ \E p \in Procs : Proceed(p)
    \/ \E p \in Procs : WriteEntry(p)
    \/ \E p \in Procs : Return(p)

\* every thread that can run does; a thread blocked in lock() gets the mutex
\* if it is free again and again; the generator does not avoid the free keys
\* forever
Fairness ==
    \A p \in Procs :
        /\ WF_vars(Proceed(p))
        /\ WF_widx(LoopStep(p))
        /\ SF_vars(Acquire(p))
        /\ WF_vars(RetryFree(p))

SpecLive == LiveInit /\ [][LiveNext]_vars /\ Fairness


\* ---------------------------------------------------------------------
\* The store with a disk that can fail: write_kvstore returns Err and
\* expect("Error writing to disk") panics in the handler
\* ---------------------------------------------------------------------
Panicked == Response("Panicked", <<>>, <<>>)

\* File::create(..)? fails: nothing is truncated, the lock was not taken
WriteCreateFail(p) ==
    /\ pc[p] = "w_create"
    /\ pc' = [pc EXCEPT ![p] = "done"]
    /\ result' = [result EXCEPT ![p] = Panicked]
    /\ scen' = ScenOff
    /\ UNCHANGED <<store, lock, file, up, call, wpos, widx, ops, history,
                   lastWritten, fresh, codecVars, cloneVars>>

\* what a failing write_all leaves of the line: nothing, or all but its end
PartialWrites(line) == {<<>>, SubSeq(line, 1, Len(line) - 1)}

\* variant: the error of write_kvstore is dropped and the handler answers Ok
WriteEntryFail_Ignored(p) ==
    /\ pc[p] = "w_loop"
    /\ widx[p] <= Len(MapIter(store))
    /\ LET k == MapIter(store)[widx[p]] IN
       \E part \in PartialWrites(EntryLine(k, store[k])) :
          file' = WriteAt(file, wpos[p], part)
    /\ lock' = NoProc
    /\ pc' = [pc EXCEPT ![p] = "done"]
    /\ result' = [result EXCEPT ![p] = Response("Ok", <<>>, <<>>)]
    /\ scen' = ScenOff
    /\ UNCHANGED <<store, up, call, wpos, widx, ops, history, lastWritten,
                   fresh, codecVars, cloneVars>>

\* file.write_all(..)? fails inside the loop: '?' returns from write_kvstore,
\* which drops the guard, and the handler panics after that
WriteEntryFail(p) ==
    /\ pc[p] = "w_loop"
    /\ widx[p] <= Len(MapIter(store))
    /\ LET k == MapIter(store)[widx[p]] IN
       \E part \in PartialWrites(EntryLine(k, store[k])) :
          file' = WriteAt(file, wpos[p], part)
    /\ lock' = NoProc
    /\ pc' = [pc EXCEPT ![p] = "done"]
    /\ result' = [result EXCEPT ![p] = Panicked]
    /\ scen' = ScenOff
    /\ UNCHANGED <<store, up, call, wpos, widx, ops, history, lastWritten,
                   fresh, codecVars, cloneVars>>

\* the inputs of the calls are narrowed: one document for the creates, another
\* for insert, list_keys without arguments
IODocs == {JNum(1)}

IONext ==
    \/ \E p \in Procs, v \in IODocs, g \in GenKeys : CreateKeyCall(p, v, g)
    \/ \E p \in Procs, g \in GenKeys : CreateKeyRetry(p, g)
    \/ \E p \in Procs : CreateKeyInsert(p)
    \/ \E p \in Procs, k \in Keys, v \in IODocs : CreateWithKeyCall(p, k, v)
    \/ \E p \in Procs : CreateWithKeyCheck(p)
    \/ \E p \in Procs : CreateWithKeyInsert(p)
    \/ \E p \in Procs, k \in Keys : InsertCall(p, k, JNull)
    \/ \E p \in Procs : InsertBody(p)
    \/ \E p \in Procs, k \in AllKeys : GetCall(p, k)
    \/ \E p \in Procs : GetBody(p)
    \/ \E p \in Procs, k \in Keys : DeleteCall(p, k)
    \/ \E p \in Procs : DeleteBody(p)
    \/ \E p \in Procs : ListCall(p, None, None)
    \/ \E p \in Procs : ListBody(p)
    \/ \E p \in Procs : Acquire(p)
    \/ \E p \in Procs : WriteCreate(p)
    \/ \E p \in Procs : WriteEntry(p)
    \/ \E p \in Procs : WriteDone(p)
    \/ \E p \in Procs : WriteCreateFail(p)
    \/ \E p \in Procs : WriteEntryFail(p)
    \/ \E p \in Procs : Return(p)

SpecIO == Init /\ [][IONext]_vars


\* ---------------------------------------------------------------------
\* The codec as a pure function: write_kvstore's bytes of a map, then
\* read_kvstore of those bytes into an empty map
\* ---------------------------------------------------------------------
\* caller-supplied keys (path segments, percent-decoded): one holds a '|'
CodecKeys == {<<97>>, <<98>>, <<97, PIPE, 98>>}

CodecDocs == {JNum(1), JNum(10), JNull, JStr(<<PIPE, QUOTE>>)}

MapsOver(K, D) == UNION {[S -> D] : S \in SUBSET K}

CodecInit ==
    /\ StoreInit
    /\ cmap \in MapsOver(CodecKeys, CodecDocs)
    /\ cbytes = <<>>
    /\ cres = [ok |-> TRUE, map |-> EmptyMap]
    /\ cstage = "start"
    /\ lskip = None
    /\ llimit = None
    /\ lres = NoResult
    /\ CloneOff

CodecEncode ==
    /\ cstage = "start"
    /\ cbytes' = EncodeMap(cmap)
    /\ cstage' = "encoded"
    /\ UNCHANGED <<storeVars, cloneVars, cmap, cres, lskip, llimit, lres>>

CodecDecode ==
    /\ cstage = "encoded"
    /\ cres' = ReadKvstore(cbytes, EmptyMap)
    /\ cstage' = "decoded"
    /\ UNCHANGED <<storeVars, cloneVars, cmap, cbytes, lskip, llimit, lres>>

CodecNext == CodecEncode \/ CodecDecode

SpecCodec == CodecInit /\ [][CodecNext]_vars

\* ---------------------------------------------------------------------
\* list_keys as a pure function of the map and its two arguments
\* ---------------------------------------------------------------------
MaxListArg == 5

ListKeySet == {<<97>>, <<98>>, <<97, 97>>, KeyOf(97)}

ListArgs == {None} \cup (0..MaxListArg)

ListInit ==
    /\ StoreInit
    /\ cmap \in MapsOver(ListKeySet, {JNum(1)})
    /\ lskip \in ListArgs
    /\ llimit \in ListArgs
    /\ lres = NoResult
    /\ CloneOff
    /\ cbytes = <<>>
    /\ cres = [ok |-> TRUE, map |-> EmptyMap]
    /\ cstage = "start"

ListApply ==
    /\ cstage = "start"
    /\ lres' = ListKeys(cmap, lskip, llimit)
    /\ cstage' = "listed"
    /\ UNCHANGED <<storeVars, cloneVars, cmap, cbytes, cres, lskip, llimit>>

ListNext == ListApply

SpecList == ListInit /\ [][ListNext]_vars


\* ---------------------------------------------------------------------
\* KVStore::new on a given persistence file
\* ---------------------------------------------------------------------
MaxFileLines == 2

\* lines a persistence file may hold: well-formed, legacy quoted, corrupt,
\* with an empty half, without or with more than one '|'
SampleLines ==
    { <<97, PIPE, 77, 81, 61, 61>>,
      <<98, PIPE, 98, 110, 86, 115, 98, 65, 61, 61>>,
      <<97, PIPE, 101, 65, 61, 61>>,
      <<98, PIPE, 77>>,
      <<97, PIPE, QUOTE, 77, 81, 61, 61, QUOTE>>,
      <<PIPE, 77, 81, 61, 61>>,
      <<97, PIPE>>,
      <<98>>,
      <<97, PIPE, 77, 81, 61, 61, PIPE, 120>>,
      <<98, PIPE, PIPE, 120>>,
      <<>> }

RECURSIVE JoinLines(_)
JoinLines(ls) == IF ls = <<>> THEN <<>> ELSE Head(ls) \o <<NL>> \o JoinLines(Tail(ls))

SampleFiles == {JoinLines(ls) : ls \in UNION {[1..n -> SampleLines] : n \in 0..MaxFileLines}}

HydrateInit ==
    /\ StoreInit
    /\ cbytes \in SampleFiles
    /\ cmap = EmptyMap
    /\ cres = [ok |-> TRUE, map |-> EmptyMap]
    /\ cstage = "start"
    /\ lskip = None
    /\ llimit = None
    /\ lres = NoResult
    /\ CloneOff

\* KVStore::new: cres is what read_kvstore returned and left in the map,
\* cstage "available" when unwrap() passed, "panicked" when it did not
Initialize ==
    /\ cstage = "start"
    /\ cres' = ReadKvstore(cbytes, EmptyMap)
    /\ cstage' = IF cres'.ok THEN "available" ELSE "panicked"
    /\ cmap' = cres'.map
    /\ UNCHANGED <<storeVars, cloneVars, cbytes, lskip, llimit, lres>>

HydrateNext == Initialize

SpecHydrate == HydrateInit /\ [][HydrateNext]_vars


\* ---------------------------------------------------------------------
\* KVStore values and their clones: each operation is one step (the whole
\* handler runs under the mutex of the value it is called on)
\* ---------------------------------------------------------------------
MaxHandles == 2

CloneKeys == {<<97>>, <<98>>}

CloneInit ==
    /\ StoreInit
    /\ cmap = EmptyMap
    /\ cbytes = <<>>
    /\ cres = [ok |-> TRUE, map |-> EmptyMap]
    /\ cstage = "off"
    /\ lskip = None
    /\ llimit = None
    /\ lres = NoResult
    /\ hmaps = <<EmptyMap>>
    /\ hlast = [k \in CloneKeys |-> Absent]
    /\ hres = NoHRes

Handles == 1..Len(hmaps)

\* impl Clone for KVStore: a new Arc<Mutex<..>> around a copy of the map
CloneStore(h) ==
    /\ Len(hmaps) < MaxHandles
    /\ hmaps' = Append(hmaps, hmaps[h])
    /\ UNCHANGED <<storeVars, codecVars, hlast, hres>>

HandleInsert(h, k, v) ==
    /\ hmaps' = [hmaps EXCEPT ![h] = MapInsert(hmaps[h], k, v)]
    /\ hlast' = [hlast EXCEPT ![k] = v]
    /\ hres' = NoHRes
    /\ UNCHANGED <<storeVars, codecVars>>

HandleDelete(h, k) ==
    /\ ContainsKey(hmaps[h], k)
    /\ hmaps' = [hmaps EXCEPT ![h] = MapRemove(hmaps[h], k)]
    /\ hlast' = [hlast EXCEPT ![k] = Absent]
    /\ hres' = NoHRes
    /\ UNCHANGED <<storeVars, codecVars>>

HandleGet(h, k) ==
    /\ hres' = [op |-> "get", handle |-> h, key |-> k,
                resp |-> IF ~ContainsKey(hmaps[h], k)
                         THEN Response("NotFound", <<>>, <<>>)
                         ELSE Response("Ok", JsonToString(hmaps[h][k]), <<>>)]
    /\ UNCHANGED <<storeVars, codecVars, hmaps, hlast>>

HandleList(h) ==
    /\ hres' = [op |-> "list_keys", handle |-> h, key |-> <<>>,
                resp |-> ListKeys(hmaps[h], None, None)]
    /\ UNCHANGED <<storeVars, codecVars, hmaps, hlast>>

CloneNext ==
    \/ \E h \in Handles : CloneStore(h)
    \/ \E h \in Handles, k \in CloneKeys, v \in Docs : HandleInsert(h, k, v)
    \/ \E h \in Handles, k \in CloneKeys : HandleDelete(h, k)
    \/ \E h \in Handles, k \in CloneKeys : HandleGet(h, k)
    \/ \E h \in Handles : HandleList(h)

SpecClone == CloneInit /\ [][CloneNext]_vars


\* ---------------------------------------------------------------------
\* Properties
\* ---------------------------------------------------------------------
MutatingOps == {"create_key", "create_key_with_key", "insert", "delete"}

Others(p) == Procs \ {p}

Min(a, b) == IF a < b THEN a ELSE b

\* C1: when a mutating operation (create_key, create_key_with_key, insert,
\* delete) has returned success and no other operation is running, the file
\* hydrates to exactly the in-memory map.
C1_SuccessImpliesPersisted ==
    \A p \in Procs :
        ( /\ pc[p] = "done"
          /\ call[p].op \in MutatingOps
          /\ result[p].status = "Ok"
          /\ \A q \in Others(p) : pc[q] = "idle" )
        => (Hydrate(file).ok /\ Hydrate(file).map = store)

\* C2: empty store, two create_key calls, a successful delete of one of the
\* two keys, then a restart: the reloaded store holds exactly the remaining
\* entry with its original value and the deleted key is absent.
C2_Remaining ==
    IF scen.del = scen.k1
    THEN [k \in {scen.k2} |-> scen.v2]
    ELSE [k \in {scen.k1} |-> scen.v1]

C2_ScenarioReload ==
    scen.phase = 7 => (up /\ store = C2_Remaining /\ ~ContainsKey(store, scen.del))

\* C3: whenever no persist is in progress, the file decodes without error to
\* one map value the in-memory map held at some earlier instant.
PersistInProgress == \E p \in Procs : pc[p] \in {"w_lock", "w_loop"}

C3_FileIsPriorSnapshot ==
    ~PersistInProgress => (Hydrate(file).ok /\ Hydrate(file).map \in history)

\* C4: of the create_key_with_key calls on one key that inserted it and whose
\* entry no delete or insert touched since, at most one exists; it answers
\* Ok and the map holds the value it supplied; a call on that key that
\* inserted nothing answers Conflict.
Creator(p) == call[p].op = "create_key_with_key" /\ fresh[p] = "fresh"

C4_SingleCreator ==
    \A p \in Procs :
        /\ Creator(p) =>
              /\ ContainsKey(store, call[p].key)
              /\ store[call[p].key] = call[p].value
              /\ (pc[p] = "done" => result[p].status = "Ok")
              /\ \A q \in Others(p) : call[q].key = call[p].key => ~Creator(q)
        /\ (call[p].op = "create_key_with_key" /\ pc[p] = "done") =>
              (result[p].status = "Conflict" <=> fresh[p] = "none")

C4_Witness ==
    \E p \in Procs : \E q \in Others(p) :
        /\ Creator(p) /\ pc[p] = "done" /\ result[p].status = "Ok"
        /\ call[q].op = "create_key_with_key" /\ call[q].key = call[p].key
        /\ pc[q] = "done" /\ result[q].status = "Conflict"


\* C5: the insertion step of create_key adds a key that was absent, keeps
\* every entry that was present, and grows the map by exactly one entry, also
\* after collisions of the candidate key; no two live create_key calls hold
\* the same generated key while neither entry was deleted or overwritten.
Generated(p) == call[p].op = "create_key" /\ fresh[p] = "fresh"

C5_InsertStep(p) ==
    (pc[p] = "ck_loop" /\ pc'[p] = "w_create") =>
        /\ ~ContainsKey(store, call[p].key)
        /\ DOMAIN store' = (DOMAIN store) \cup {call[p].key}
        /\ store'[call[p].key] = call[p].value
        /\ \A k \in DOMAIN store : store'[k] = store[k]
        /\ Cardinality(DOMAIN store') = Cardinality(DOMAIN store) + 1

C5_DistinctKeys ==
    \A p \in Procs : \A q \in Others(p) :
        (Generated(p) /\ Generated(q)) => call[p].key # call[q].key

C5_NeverOverwrites ==
    /\ [][\A p \in Procs : C5_InsertStep(p)]_vars
    /\ []C5_DistinctKeys

C5_Witness ==
    \E p \in Procs : \E q \in Others(p) :
        /\ Generated(p) /\ Generated(q)
        /\ call[p].retried
        /\ pc[p] = "done" /\ result[p].body = call[p].key
        /\ ContainsKey(store, call[p].key)
        /\ store[call[p].key] = call[p].value

\* C6: create_key_with_key on a key that is present answers Conflict, leaves
\* the map and the file as they were, and ends without a persist.
C6_ConflictStep(p) ==
    ( /\ pc[p] = "cwk_check"
      /\ pc'[p] # "cwk_check"
      /\ ContainsKey(store, call[p].key) )
    => /\ result'[p].status = "Conflict"
       /\ pc'[p] = "done"
       /\ store' = store
       /\ file' = file

C6_ConflictNoChange == [][\A p \in Procs : C6_ConflictStep(p)]_vars

C6_Witness ==
    \E p \in Procs :
        /\ call[p].op = "create_key_with_key"
        /\ pc[p] = "done"
        /\ result[p].status = "Conflict"
        /\ ContainsKey(store, call[p].key)
        /\ store[call[p].key] # call[p].value

\* C7: insert (upsert) answers Ok, and afterwards the map holds exactly the
\* supplied value for the key, whether or not the key was present; every
\* other key keeps its value.
C7_UpsertStep(p) ==
    (pc[p] = "ins_body" /\ pc'[p] # "ins_body") =>
        /\ result'[p].status = "Ok"
        /\ pc'[p] = "done"
        /\ DOMAIN store' = (DOMAIN store) \cup {call[p].key}
        /\ store'[call[p].key] = call[p].value
        /\ \A k \in (DOMAIN store) \ {call[p].key} : store'[k] = store[k]

C7_UpsertReplaces == [][\A p \in Procs : C7_UpsertStep(p)]_vars

C7_Witness ==
    \E p \in Procs :
        /\ call[p].op = "insert"
        /\ pc[p] = "done"
        /\ result[p].status = "Ok"
        /\ ContainsKey(store, call[p].key)
        /\ store[call[p].key] = call[p].value
        /\ \E m \in history :
             ContainsKey(m, call[p].key) /\ m[call[p].key] # call[p].value

\* C8: get answers what the last operation on its key left: NotFound after a
\* successful delete, exactly v after a successful create_key_with_key or
\* insert of v, and exactly v for the key a create_key of v generated.
C8_Expected(k) ==
    IF lastWritten[k] = Absent
    THEN Response("NotFound", <<>>, <<>>)
    ELSE Response("Ok", JsonToString(lastWritten[k]), <<>>)

C8_GetStep(p) ==
    (pc[p] = "get_body" /\ pc'[p] # "get_body") =>
        result'[p] = C8_Expected(call[p].key)

C8_GetAfterWrite == [][\A p \in Procs : C8_GetStep(p)]_vars

C8_Witness ==
    \E p \in Procs :
        /\ call[p].op = "get"
        /\ pc[p] = "done"
        /\ result[p].status = "NotFound"
        /\ \E m \in history : ContainsKey(m, call[p].key)

\* C9: list_keys(skip, limit) over a map of N entries answers the entries at
\* positions [s, min(s + l, N)) of the ascending key order (s = 0 and
\* l = 1000 when not given), and NotFound exactly when that slice is empty.
C9_Rank(m, k) == Cardinality({x \in DOMAIN m : StrLess(x, k)})

C9_SliceLen(N, s, l) == IF Min(s + l, N) > s THEN Min(s + l, N) - s ELSE 0

C10_RoundTrip ==
    cstage = "decoded" => (cres.ok /\ cres.map = cmap)

\* ---------------------------------------------------------------------
\* Hydration (SpecHydrate)
\* ---------------------------------------------------------------------
\* the two halves of a line split at its first '|' only
FirstPipeKey(l) ==
    LET i == IndexOf(l, PIPE, 1) IN IF i = 0 THEN l ELSE SubSeq(l, 1, i - 1)

FirstPipeRest(l) ==
    LET i == IndexOf(l, PIPE, 1) IN IF i = 0 THEN <<>> ELSE SubSeq(l, i + 1, Len(l))

\* the raw value passes base64 decoding and document parsing
Decodable(raw) ==
    LET d == Base64Decode(StripQuotes(raw)) IN d.ok /\ JsonFromSlice(d.bytes).ok

BadLine(l) == FirstPipeKey(l) # <<>> /\ FirstPipeRest(l) # <<>> /\ ~Decodable(FirstPipeRest(l))

\* C11: when some line of the persistence file has a non-empty key and a
\* non-empty raw value (the rest of the line after its first '|') that fails
\* base64 decoding or document parsing, KVStore::new does not come up: it
\* panics instead of skipping the line.
C11_BadLineIsFatal ==
    (cstage # "start" /\ \E i \in 1..Len(Lines(cbytes)) : BadLine(Lines(cbytes)[i]))
        => cstage = "panicked"

\* C17: a failed decode leaves the target map without any entry of the
\* file, in particular without the entries of the lines before the bad one.
C17_AllOrNothing ==
    cstage = "panicked" => cres.map = EmptyMap

\* the decoder that splits every line at its first '|' only
RECURSIVE FirstPipeDecode(_, _)
FirstPipeDecode(ls, m) ==
    IF ls = <<>> THEN [ok |-> TRUE, map |-> m]
    ELSE LET key == FirstPipeKey(Head(ls))
             rest == FirstPipeRest(Head(ls))
         IN IF key = <<>> \/ rest = <<>> THEN FirstPipeDecode(Tail(ls), m)
            ELSE IF ~Decodable(rest) THEN [ok |-> FALSE, map |-> m]
            ELSE FirstPipeDecode(Tail(ls),
                     MapInsert(m, key, JsonFromSlice(Base64Decode(StripQuotes(rest)).bytes).val))

\* C18: decode takes as key the text before the first '|' of a line and as
\* raw value the whole rest of the line, further '|' included, and skips the
\* line only when one of the two is empty: it succeeds on the files on which
\* that split succeeds, with the same entries.
C18_SplitAtFirstPipe ==
    cstage # "start" =>
        LET ref == FirstPipeDecode(Lines(cbytes), EmptyMap) IN
        /\ cres.ok = ref.ok
        /\ cres.ok => cres.map = ref.map

\* ---------------------------------------------------------------------
\* Frame conditions of get, list_keys and delete
\* ---------------------------------------------------------------------
\* the operation whose step this is, when caller p moves
StepOp(p) == IF pc[p] = "idle" THEN call'[p].op ELSE call[p].op

C15_FrameStep(p) ==
    /\ StepOp(p) \in {"get", "list_keys"} => (store' = store /\ file' = file)
    /\ StepOp(p) = "delete" =>
        /\ file' = file
        /\ IF pc[p] = "del_body" /\ call[p].key \in DOMAIN store
           THEN /\ DOMAIN store' = DOMAIN store \ {call[p].key}
                /\ \A k \in DOMAIN store' : store'[k] = store[k]
                /\ result'[p].status = "Ok"
           ELSE store' = store
    /\ (pc[p] = "del_body" /\ call[p].key \notin DOMAIN store) => result'[p].status = "NotFound"

\* C15: every step of a get or a list_keys call, whatever it answers, and
\* every step of a delete of an absent key leave the map and the file as
\* they are; the delete of a present key k removes k and nothing else from
\* the map and leaves the file as it is.
C15_ReadsAndDeleteFrame ==
    [][\A p \in Procs : pc'[p] # pc[p] => C15_FrameStep(p)]_vars

C15_Witness ==
    \E p \in Procs :
        /\ pc[p] = "done"
        /\ call[p].op = "delete"
        /\ result[p].status = "Ok"
        /\ call[p].key \notin DOMAIN store
        /\ store # EmptyMap

\* ---------------------------------------------------------------------
\* Linearizability of the map operations
\* ---------------------------------------------------------------------
\* positions at which a caller holds the guard of its map critical section
MapSections == {"ck_loop", "cwk_check", "cwk_insert", "ins_body", "get_body",
                "del_body", "list_body"}

\* the atomic sequential map: state after call c on map m
SeqPut(m, k, v) == [x \in DOMAIN m \cup {k} |-> IF x = k THEN v ELSE m[x]]

SeqMap(m, c) ==
    CASE c.op = "create_key" -> SeqPut(m, c.key, c.value)
      [] c.op = "create_key_with_key" ->
            IF c.key \in DOMAIN m THEN m ELSE SeqPut(m, c.key, c.value)
      [] c.op = "insert" -> SeqPut(m, c.key, c.value)
      [] c.op = "delete" -> [x \in DOMAIN m \ {c.key} |-> m[x]]
      [] OTHER -> m

\* the atomic sequential map: status of call c on map m
SeqStatus(m, c) ==
    CASE c.op = "create_key_with_key" -> IF c.key \in DOMAIN m THEN "Conflict" ELSE "Ok"
      [] c.op \in {"get", "delete"} -> IF c.key \in DOMAIN m THEN "Ok" ELSE "NotFound"
      [] c.op = "list_keys" -> ListKeys(m, c.skip, c.limit).status
      [] OTHER -> "Ok"

\* the step with which caller p leaves its map critical section
C16_SectionEnd(p) ==
    /\ lock = p
    /\ store' = SeqMap(store, call[p])
    /\ call[p].op = "create_key" => call[p].key \notin DOMAIN store
    /\ IF pc'[p] = "w_create"
       THEN SeqStatus(store, call[p]) = "Ok"
       ELSE /\ pc'[p] = "done"
            /\ result'[p].status = SeqStatus(store, call[p])
            /\ call[p].op = "get" /\ call[p].key \in DOMAIN store
                  => result'[p].body = JsonToString(store[call[p].key])
            /\ call[p].op = "list_keys"
                  => result'[p] = ListKeys(store, call[p].skip, call[p].limit)

C16_Step ==
    /\ \A p \in Procs :
          /\ (pc[p] \in MapSections /\ pc'[p] \notin MapSections) => C16_SectionEnd(p)
          /\ (pc[p] \in MapSections /\ pc'[p] \in MapSections) => (lock = p => store' = store)
          /\ (pc[p] = "w_loop" /\ pc'[p] = "done") =>
                /\ result'[p].status = "Ok"
                /\ call[p].op = "create_key" => result'[p].body = call[p].key
    /\ store' # store =>
          \/ \E p \in Procs : lock = p /\ pc[p] \in MapSections /\ pc'[p] \notin MapSections
          \/ \A p \in Procs : pc[p] = "idle"

\* C16: the map changes only in the step with which the holder of the lock
\* leaves its critical section (or at a restart), and that step leaves the
\* map and the outcome that the atomic sequential map gives for the caller's
\* operation applied to the map as it is then: the operations take effect
\* one at a time in the order of their critical sections.
C16_Linearizable == [][C16_Step]_vars

C16_Witness ==
    \E p, q \in Procs :
        /\ p # q
        /\ pc[p] = "cwk_insert"
        /\ pc[q] = "ins_lock"
        /\ call[q].key = call[p].key
        /\ store # EmptyMap

\* ---------------------------------------------------------------------
\* The snapshot of the persist step
\* ---------------------------------------------------------------------
\* the entries write_kvstore has written so far, as bytes of the current map
WrittenSoFar(p) == EncodeEntries(store, SubSeq(MapIter(store), 1, widx[p] - 1))

C14_InLoop(p) ==
    /\ lock = p
    /\ widx[p] \in 1..(Len(MapIter(store)) + 1)
    /\ wpos[p] = Len(WrittenSoFar(p))
    /\ fresh[p] = "fresh" =>
          (call[p].key \in DOMAIN store /\ store[call[p].key] = call[p].value)

C14_LoopStep(p) ==
    /\ store' = store
    /\ widx'[p] # widx[p] =>
          /\ widx'[p] = widx[p] + 1
          /\ LET k == MapIter(store)[widx[p]] IN
             SubSeq(file', wpos[p] + 1, wpos'[p]) = EntryLine(k, store[k])
    /\ pc'[p] = "done" => wpos[p] = Len(EncodeMap(store))

\* C14: the caller does not hold the lock when it enters write_kvstore and
\* takes it anew for the loop; while it writes, the map does not change and
\* every write_all writes the line of the next entry of the map right
\* after the previous one, so the bytes it has written at the end are the
\* encoding of the map of that one instant; the entry it inserted is in
\* that map with its value unless a delete or an insert of the same key
\* came in between.
C14_SnapshotUnderLock ==
    /\ [](\A p \in Procs :
            /\ pc[p] \in {"w_create", "w_lock"} => lock # p
            /\ pc[p] = "w_loop" => C14_InLoop(p))
    /\ [][\A p \in Procs : pc[p] = "w_loop" => C14_LoopStep(p)]_vars

C14_Witness ==
    \E p \in Procs :
        /\ pc[p] = "w_loop"
        /\ fresh[p] = "fresh"
        /\ widx[p] = 3
        /\ Len(MapIter(store)) = 2
        /\ \E q \in Procs : q # p /\ pc[q] = "ins_lock"

\* ---------------------------------------------------------------------
\* Failure of the persist step (SpecIO)
\* ---------------------------------------------------------------------
\* caller p leaves write_kvstore in this step without having written all entries
PersistFails(p) ==
    /\ pc'[p] = "done"
    /\ \/ pc[p] = "w_create"
       \/ pc[p] = "w_loop" /\ widx[p] <= Len(MapIter(store))

\* the entry caller p created is in the map
EntryKept(p) == call[p].key \in DOMAIN store /\ store[call[p].key] = call[p].value

C20_FailStep(p) ==
    /\ result'[p].status # "Ok"
    /\ store' = store
    /\ lock' # p

C20_ReadStep(p, q) ==
    (/\ result[p] = Panicked
     /\ fresh[p] = "fresh"
     /\ call[q].key = call[p].key
     /\ pc[q] = "get_body"
     /\ pc'[q] = "done")
        => result'[q] = Response("Ok", JsonToString(call[p].value), <<>>)

\* C20: the step in which a create's persist fails does not answer Ok, leaves
\* the map as it is and does not leave the lock with the caller; afterwards
\* the lock is not held by that caller, its entry stays in the map until a
\* delete or insert of the same key, and a get of that key by another
\* caller answers Ok with the value.
C20_PersistFailure ==
    /\ [](\A p \in Procs :
            result[p] = Panicked =>
                /\ lock # p
                /\ fresh[p] = "fresh" => EntryKept(p))
    /\ [][\A p \in Procs :
            /\ PersistFails(p) => C20_FailStep(p)
            /\ \A q \in Procs \ {p} : C20_ReadStep(p, q)]_vars

C20_Witness ==
    \E p, q \in Procs :
        /\ p # q
        /\ result[p] = Panicked
        /\ pc[p] = "done"
        /\ fresh[p] = "fresh"
        /\ call[q].op = "get"
        /\ call[q].key = call[p].key
        /\ pc[q] = "done"
        /\ result[q].status = "Ok"

\* ---------------------------------------------------------------------
\* One map behind every KVStore value (SpecClone)
\* ---------------------------------------------------------------------
\* the single shared map: what the mutations through all values have left
SharedMap == [k \in {x \in DOMAIN hlast : hlast[x] # Absent} |-> hlast[k]]

\* C13: a get or a list_keys through any KVStore value, a clone included,
\* answers from the map that the mutations made through all the values
\* have left.
C13_SingleSharedMap ==
    /\ hres.op = "get" =>
          hres.resp = (IF hres.key \in DOMAIN SharedMap
                       THEN Response("Ok", JsonToString(SharedMap[hres.key]), <<>>)
                       ELSE Response("NotFound", <<>>, <<>>))
    /\ hres.op = "list_keys" => hres.resp = ListKeys(SharedMap, None, None)

=============================================================================
